---- MODULE Spec2Model ----
(***************************************************************************)
(* node-discord-alerts: the packing of an alert into Discord embeds        *)
(* (utils/size-adjusting.ts) and the batching, timer-driven client         *)
(* (client.ts), as a state machine.                                        *)
(*                                                                         *)
(* Strings are kept run-length encoded: a string is a sequence of runs     *)
(* <<c, n>> (the character c repeated n >= 1 times), so that a 4000        *)
(* character description is one run.  Every string operation of the source *)
(* (length, slice, +) is defined on that encoding by what it does to the   *)
(* characters.  Times are in milliseconds, as in the source.               *)
(***************************************************************************)
EXTENDS Integers, Sequences, FiniteSets, TLC

(* ------------------------------------------------------------------ *)
(* JavaScript strings                                                 *)
(* ------------------------------------------------------------------ *)

\* the value `undefined` where a string may stand (no string has a run of 0)
Undefined == << <<"undefined", 0>> >>

\* c repeated n times ('x'.repeat(n))
Rep(c, n) == IF n > 0 THEN << <<c, n>> >> ELSE <<>>

\* s.length
RECURSIVE Length(_)
Length(s) == IF s = <<>> THEN 0 ELSE s[1][2] + Length(Tail(s))

\* a + b
Concat(a, b) ==
  IF a = <<>> THEN b
  ELSE IF b = <<>> THEN a
  ELSE IF a[Len(a)][1] = b[1][1]
       THEN SubSeq(a, 1, Len(a) - 1)
              \o << <<b[1][1], a[Len(a)][2] + b[1][2]>> >>
              \o Tail(b)
       ELSE a \o b

\* the first k characters of s
RECURSIVE TakeChars(_, _)
TakeChars(s, k) ==
  IF k <= 0 \/ s = <<>> THEN <<>>
  ELSE IF s[1][2] <= k THEN <<s[1]>> \o TakeChars(Tail(s), k - s[1][2])
  ELSE << <<s[1][1], k>> >>

\* s without its first k characters
RECURSIVE DropChars(_, _)
DropChars(s, k) ==
  IF k <= 0 \/ s = <<>> THEN s
  ELSE IF s[1][2] <= k THEN DropChars(Tail(s), k - s[1][2])
  ELSE << <<s[1][1], s[1][2] - k>> >> \o Tail(s)

\* String.prototype.slice's clamping of one index (a negative index counts
\* from the end)
SliceIndex(i, n) ==
  IF i < 0 THEN (IF n + i < 0 THEN 0 ELSE n + i)
  ELSE (IF i > n THEN n ELSE i)

\* s.slice(from, to)
Slice(s, from, to) ==
  LET n == Length(s)
      a == SliceIndex(from, n)
      b == SliceIndex(to, n)
  IN IF b <= a THEN <<>> ELSE TakeChars(DropChars(s, a), b - a)

\* a string value is truthy unless it is undefined or empty
Truthy(s) == s # Undefined /\ s # <<>>

(* ------------------------------------------------------------------ *)
(* utils/stringify.ts                                                 *)
(* ------------------------------------------------------------------ *)

\* A context value is [kind, text]: a string (text is the string), an Error
\* (text is its stack), a number (text is its decimal form), a bigint
\* (text is its decimal form), an object that contains itself or undefined.
Quote == << <<"\"", 1>> >>

\* what stands for the TypeError that JSON.stringify throws (no string has a
\* run of 0)
TypeError == << <<"TypeError", 0>> >>

\* replacer + JSON.stringify of a non-string, non-Error input
JSONStringify(v) ==
  IF v.kind = "bigint" THEN Concat(Concat(Quote, v.text), Quote)
  ELSE IF v.kind = "circular" THEN TypeError
  ELSE IF v.kind = "undefined" THEN Undefined
  ELSE v.text

stringify(v) ==
  IF v.kind = "string" THEN v.text
  ELSE IF v.kind = "error" THEN v.text
  ELSE JSONStringify(v)

(* ------------------------------------------------------------------ *)
(* utils/size-adjusting.ts                                            *)
(* ------------------------------------------------------------------ *)

EMBED_TOTAL_CHARS == 5900
EMBED_MAX_FIELDS == 25
TITLE == 200
DESCRIPTION == 4000
FOOTER == 2000
FIELD_NAME == 240
FIELD_VALUE == 1000
MAX_EMBEDS_PER_PAYLOAD == 10

\* truncate that cuts at max and then appends the suffix
truncateAtMax(txt, max, suffix) ==
  IF Length(txt) > max
  THEN Concat(Slice(txt, 0, max), suffix)
  ELSE txt

truncate(txt, max, suffix) ==
  IF Length(txt) > max
  THEN Concat(Slice(txt, 0, max - Length(suffix)), suffix)
  ELSE txt

\* chunk whose slices end one character early (txt.slice(i, i + size - 1))
RECURSIVE chunkFromShort(_, _, _)
chunkFromShort(txt, size, i) ==
  IF i < Length(txt)
  THEN <<Slice(txt, i, i + size - 1)>> \o chunkFromShort(txt, size, i + size)
  ELSE <<>>

RECURSIVE chunkFrom(_, _, _)
chunkFrom(txt, size, i) ==
  IF i < Length(txt)
  THEN <<Slice(txt, i, i + size)>> \o chunkFrom(txt, size, i + size)
  ELSE <<>>

chunk(txt, size) == IF ~Truthy(txt) THEN <<>> ELSE chunkFrom(txt, size, 0)

\* utils/get-color-for-level: <<>> is undefined, <<n>> the color n
getColorForLevel(level) ==
  IF level = "" THEN <<>>
  ELSE IF level = "fatal" THEN <<16711680>>
  ELSE IF level = "error" THEN <<16737894>>
  ELSE IF level = "warn" THEN <<16776960>>
  ELSE IF level = "info" THEN <<255>>
  ELSE <<0>>

\* the literal 'alertId'
AlertIdName ==
  << <<"a", 1>>, <<"l", 1>>, <<"e", 1>>, <<"r", 1>>, <<"t", 1>>, <<"I", 1>>,
     <<"d", 1>> >>

\* crypto.randomUUID(): 36 characters, different at every call; n numbers
\* the calls
UUID_LENGTH == 36
randomUUID(n) == Rep(ToString(n), UUID_LENGTH)

\* new Date().toISOString(): 24 characters
ISO_LENGTH == 24
toISOString == Rep("t", ISO_LENGTH)

\* Object.entries(alert.context).  The context is kept as the sequence of
\* its entries [name, value] in the order they were inserted.  Object.entries
\* lists the own string keys in the order of OrdinaryOwnPropertyKeys: first
\* the array indices (canonical decimal strings of 0 .. 2^32 - 2) in
\* ascending numeric order, then the other keys in insertion order.
DigitChars == {"0", "1", "2", "3", "4", "5", "6", "7", "8", "9"}

DigitOf(c) == CHOOSE d \in 0..9 : ToString(d) = c

\* the digits of a string of digits
RECURSIVE DigitsOf(_)
DigitsOf(s) ==
  IF s = <<>> THEN <<>>
  ELSE [i \in 1..s[1][2] |-> DigitOf(s[1][1])] \o DigitsOf(Tail(s))

\* a < b for canonical digit sequences (no leading zero)
NumLess(a, b) ==
  \/ Len(a) < Len(b)
  \/ /\ Len(a) = Len(b)
     /\ \E i \in 1..Len(a) :
          /\ a[i] < b[i]
          /\ \A j \in 1..(i - 1) : a[j] = b[j]

\* 2^32 - 2, the largest array index
MaxArrayIndex == <<4, 2, 9, 4, 9, 6, 7, 2, 9, 4>>

IsArrayIndex(k) ==
  /\ k # <<>>
  /\ \A i \in 1..Len(k) : k[i][1] \in DigitChars
  /\ Length(k) <= Len(MaxArrayIndex)
  /\ (Length(k) > 1 => k[1][1] # "0")
  /\ ~NumLess(MaxArrayIndex, DigitsOf(k))

\* entries with array-index names, in ascending order of the index
RECURSIVE SortByIndex(_)
SortByIndex(es) ==
  IF es = <<>> THEN <<>>
  ELSE LET m == CHOOSE i \in 1..Len(es) :
                  \A j \in 1..Len(es) :
                     j # i => NumLess(DigitsOf(es[i].name),
                                      DigitsOf(es[j].name))
       IN <<es[m]>>
            \o SortByIndex(SubSeq(es, 1, m - 1) \o SubSeq(es, m + 1, Len(es)))

ObjectEntries(context) ==
  SortByIndex(SelectSeq(context, LAMBDA e : IsArrayIndex(e.name)))
    \o SelectSeq(context, LAMBDA e : ~IsArrayIndex(e.name))

\* 0: prepare / sanitise all segments
preparedTitle(alert, suffix) ==
  IF Truthy(alert.title) THEN truncate(alert.title, TITLE, suffix)
  ELSE Undefined

preparedFooter(alert, suffix) ==
  IF Truthy(alert.footer) THEN truncate(alert.footer, FOOTER, suffix)
  ELSE Undefined

descriptionChunks(alert) ==
  chunk(IF alert.description = Undefined THEN <<>> ELSE alert.description,
        DESCRIPTION)

preparedFields(alert, suffix) ==
  LET es == ObjectEntries(alert.context)
  IN [i \in 1..Len(es) |->
        [name  |-> truncate(es[i].name, FIELD_NAME, suffix),
         value |-> truncate(stringify(es[i].value), FIELD_VALUE, suffix)]]

\* 1: the linear list of segments
Segments(alert, suffix) ==
  LET t == preparedTitle(alert, suffix)
      f == preparedFooter(alert, suffix)
      d == descriptionChunks(alert)
      c == preparedFields(alert, suffix)
  IN (IF Truthy(t) THEN <<[kind |-> "title", content |-> t]>> ELSE <<>>)
     \o [i \in 1..Len(d) |-> [kind |-> "description", content |-> d[i]]]
     \o [i \in 1..Len(c) |-> [kind |-> "field", content |-> c[i]]]
     \o (IF Truthy(f) THEN <<[kind |-> "footer", content |-> f]>> ELSE <<>>)

\* 2: greedy packing.  The packer's state is [embeds, open, current,
\* charCount, fieldCount]; open is FALSE when current is null.
NoEmbed ==
  [color |-> <<>>, timestamp |-> <<>>, title |-> Undefined,
   description |-> Undefined, footer |-> Undefined, fields |-> <<>>]

PackInit ==
  [embeds |-> <<>>, open |-> FALSE, current |-> NoEmbed, charCount |-> 0,
   fieldCount |-> 0]

\* variant: every container is stamped with an identifier of its own
startNewEmbedOwnId(p, alert, alertId) ==
  [p EXCEPT
     !.open = TRUE,
     !.current =
        [color |-> getColorForLevel(alert.level),
         timestamp |-> toISOString,
         title |-> Undefined, description |-> Undefined, footer |-> Undefined,
         fields |-> <<[name |-> AlertIdName,
                       value |-> randomUUID(Len(p.embeds) + 1)]>>],
     !.charCount = Length(AlertIdName) + Length(alertId),
     !.fieldCount = 1]

startNewEmbed(p, alert, alertId) ==
  [p EXCEPT
     !.open = TRUE,
     !.current =
        [color |-> getColorForLevel(alert.level),
         timestamp |-> toISOString,
         title |-> Undefined, description |-> Undefined, footer |-> Undefined,
         fields |-> <<[name |-> AlertIdName, value |-> alertId]>>],
     !.charCount = Length(AlertIdName) + Length(alertId),
     !.fieldCount = 1]

commitEmbed(p) ==
  [p EXCEPT
     !.embeds = IF p.open
                THEN Append(p.embeds,
                            [color |-> p.current.color,
                             timestamp |-> p.current.timestamp,
                             title |-> p.current.title,
                             description |-> p.current.description,
                             footer |-> p.current.footer,
                             fields |-> p.current.fields,
                             charsCount |-> p.charCount])
                ELSE p.embeds,
     !.open = FALSE,
     !.current = NoEmbed,
     !.charCount = 0,
     !.fieldCount = 0]

ensure(p, alert, alertId) ==
  IF ~p.open THEN startNewEmbed(p, alert, alertId) ELSE p

\* the slot of the current embed a title/description/footer segment fills
Slot(e, kind) ==
  IF kind = "title" THEN e.title
  ELSE IF kind = "description" THEN e.description
  ELSE e.footer

SetSlot(e, kind, content) ==
  IF kind = "title" THEN [e EXCEPT !.title = content]
  ELSE IF kind = "description" THEN [e EXCEPT !.description = content]
  ELSE [e EXCEPT !.footer = content]

\* case 'title' / 'description' / 'footer'
packText(p0, seg, alert, alertId) ==
  LET p1 == ensure(p0, alert, alertId)
      len == Length(seg.content)
      p2 == IF Truthy(Slot(p1.current, seg.kind))
               \/ p1.charCount + len > EMBED_TOTAL_CHARS
            THEN startNewEmbed(commitEmbed(p1), alert, alertId)
            ELSE p1
  IN [p2 EXCEPT !.current = SetSlot(p2.current, seg.kind, seg.content),
                !.charCount = p2.charCount + len]

\* packField without the test of the field count
packFieldUncounted(p0, seg, alert, alertId) ==
  LET extraChars == Length(seg.content.name) + Length(seg.content.value)
      p1 == IF ~p0.open
               \/ p0.charCount + extraChars > EMBED_TOTAL_CHARS
            THEN startNewEmbed(commitEmbed(p0), alert, alertId)
            ELSE p0
  IN [p1 EXCEPT !.current.fields = Append(p1.current.fields, seg.content),
                !.fieldCount = p1.fieldCount + 1,
                !.charCount = p1.charCount + extraChars]

\* packField with the field put right behind the alertId field
\* (fields.splice(1, 0, ...) for fields.push)
packFieldSpliced(p0, seg, alert, alertId) ==
  LET extraChars == Length(seg.content.name) + Length(seg.content.value)
      p1 == IF ~p0.open
               \/ p0.fieldCount >= EMBED_MAX_FIELDS
               \/ p0.charCount + extraChars > EMBED_TOTAL_CHARS
            THEN startNewEmbed(commitEmbed(p0), alert, alertId)
            ELSE p0
  IN [p1 EXCEPT !.current.fields =
                   <<Head(p1.current.fields)>> \o <<seg.content>>
                     \o Tail(p1.current.fields),
                !.fieldCount = p1.fieldCount + 1,
                !.charCount = p1.charCount + extraChars]

\* case 'field'
packField(p0, seg, alert, alertId) ==
  LET extraChars == Length(seg.content.name) + Length(seg.content.value)
      p1 == IF ~p0.open
               \/ p0.fieldCount >= EMBED_MAX_FIELDS
               \/ p0.charCount + extraChars > EMBED_TOTAL_CHARS
            THEN startNewEmbed(commitEmbed(p0), alert, alertId)
            ELSE p0
  IN [p1 EXCEPT !.current.fields = Append(p1.current.fields, seg.content),
                !.fieldCount = p1.fieldCount + 1,
                !.charCount = p1.charCount + extraChars]

packSegment(p, seg, alert, alertId) ==
  IF seg.kind = "field" THEN packField(p, seg, alert, alertId)
  ELSE packText(p, seg, alert, alertId)

\* for (const seg of segments): segments lo..hi packed in order into p.  The
\* range is halved rather than walked, which is the same fold at a recursion
\* depth logarithmic in the number of segments.  TLC evaluates an argument
\* only where it is first used: the test of left.open makes it pack the left
\* half before it descends into the right half (both branches are the same).
RECURSIVE packFrom(_, _, _, _, _, _)
packFrom(p, segs, lo, hi, alert, alertId) ==
  IF lo > hi THEN p
  ELSE IF lo = hi THEN packSegment(p, segs[lo], alert, alertId)
  ELSE LET mid == (lo + hi) \div 2
           left == packFrom(p, segs, lo, mid, alert, alertId)
       IN IF left.open
          THEN packFrom(left, segs, mid + 1, hi, alert, alertId)
          ELSE packFrom(left, segs, mid + 1, hi, alert, alertId)

alertToEmbeds(alert, suffix, alertId) ==
  LET segments == Segments(alert, suffix)
  IN commitEmbed(packFrom(PackInit, segments, 1, Len(segments), alert,
                          alertId)).embeds

fillBatchStrip(e) == [x \in (DOMAIN e) \ {"charsCount"} |-> e[x]]

\* fillBatch that tests the sum only after the push
RECURSIVE fillBatchFromLate(_, _, _, _, _)
fillBatchFromLate(source, batchSize, i, batch, accumulatedChars) ==
  IF i > Len(source) \/ Len(batch) >= batchSize THEN batch
  ELSE LET acc == accumulatedChars + source[i].charsCount
           pushed == Append(batch, fillBatchStrip(source[i]))
       IN IF acc > EMBED_TOTAL_CHARS THEN pushed
          ELSE fillBatchFromLate(source, batchSize, i + 1, pushed, acc)

RECURSIVE fillBatchFrom(_, _, _, _, _)
fillBatchFrom(source, batchSize, i, batch, accumulatedChars) ==
  IF i > Len(source) \/ Len(batch) >= batchSize THEN batch
  ELSE LET acc == accumulatedChars + source[i].charsCount
       IN IF acc > EMBED_TOTAL_CHARS THEN batch
          ELSE fillBatchFrom(source, batchSize, i + 1,
                             Append(batch, fillBatchStrip(source[i])), acc)

fillBatch(source, batchSize) ==
  IF Len(source) = 0 THEN <<>>
  ELSE fillBatchFrom(source, batchSize, 1, <<>>, 0)

(* ------------------------------------------------------------------ *)
(* client.ts: AlertsClient                                             *)
(* ------------------------------------------------------------------ *)

BATCH_SIZE == 10
DEFAULT_TIMEOUT_MS == 10000
FLUSH_TIMEOUT_MS == 5000
FLUSH_POLL_MS == 1000
DEFAULT_RETRY_AFTER_SECONDS == 30
TRUNCATED_SUFFIX == Rep(".", 3)

\* bounds of the model
MaxAlerts == 2
MaxFlush == 3
Max429 == 2
MaxFail == 1
MaxStop == 1
\* calls of the public operations and non-ok responses, all together
MaxEvents == 4
\* the same, in the specification with fairness
MaxFairEvents == 3

VARIABLES
  disabled,    \* this.disabled (set by the constructor)
  embeds,      \* this.embeds: the queue of containers
  timeoutId,   \* this.timeoutId: 0 is null, else a timer handle
  isSending,   \* this.isSending
  isFlushing,  \* this.isFlushing
  timers,      \* the armed timers of the event loop, in firing order
  calls,       \* the sendAlertsBatch invocations suspended at an await
  flushers,    \* the position of every flush() call
  nAlerts,     \* addAlert calls so far (numbers the randomUUID calls)
  n429,        \* 429 responses so far
  nFail,       \* other non-ok responses so far
  nStop,       \* stop() calls so far
  ev,          \* history: the operation of the last step
  lost,        \* history: containers removed by a send they were not part of
  handed,      \* history: containers included in a payload so far
  once,        \* history: containers in >= 1 payload answered non-429
  twice,       \* history: containers in >= 2 payloads answered non-429
  rl,          \* history: one record per handled 429
  halted,      \* history: stop() ran with no call in flight, and no
               \* addAlert or flush() was called since
  pin, pout,   \* input and result of the specifications of one function
  lazy         \* the LazyLoadingAlertsClient in front of the client

vars ==
  <<disabled, embeds, timeoutId, isSending, isFlushing, timers, calls,
    flushers, nAlerts, n429, nFail, nStop, ev, lost, handed, once, twice, rl,
    halted, pin, pout, lazy>>

clientVars ==
  <<disabled, embeds, timeoutId, isSending, isFlushing, timers, calls,
    flushers, nAlerts, n429, nFail, nStop, ev, lost, handed, once, twice, rl,
    halted>>

\* the mutable state of the client as one record, so that a handler that
\* calls another is the composition of the two
Cur ==
  [embeds |-> embeds, timeoutId |-> timeoutId, isSending |-> isSending,
   isFlushing |-> isFlushing, timers |-> timers, calls |-> calls,
   flushers |-> flushers, lost |-> lost, handed |-> handed, once |-> once,
   twice |-> twice, rl |-> rl, halted |-> halted]

Apply(s, op) ==
  /\ embeds' = s.embeds
  /\ timeoutId' = s.timeoutId
  /\ isSending' = s.isSending
  /\ isFlushing' = s.isFlushing
  /\ timers' = s.timers
  /\ calls' = s.calls
  /\ flushers' = s.flushers
  /\ lost' = s.lost
  /\ handed' = s.handed
  /\ once' = s.once
  /\ twice' = s.twice
  /\ rl' = s.rl
  /\ halted' = s.halted
  /\ ev' = op

\* const v = e: the value of e, computed once, in F
With(e, F(_)) == CHOOSE r \in {F(v) : v \in {e}} : TRUE

Cids(es) == {es[i].cid : i \in 1..Len(es)}
CidSeq(es) == [i \in 1..Len(es) |-> es[i].cid]

(* ----- timers ----- *)

\* a handle no armed timer and no stored handle has
FreshId(s) ==
  CHOOSE i \in 1..(Len(s.timers) + 2) :
    /\ i # s.timeoutId
    /\ \A j \in 1..Len(s.timers) : s.timers[j].id # i

\* the place of a new timer of delay ms: behind every timer due no later
InsertAt(ts, ms) == Cardinality({j \in 1..Len(ts) : ts[j].rem <= ms})

ArmTimer(ts, t) ==
  LET k == InsertAt(ts, t.rem)
  IN SubSeq(ts, 1, k) \o <<t>> \o SubSeq(ts, k + 1, Len(ts))

\* this.timeoutId = setTimeout(this.sendAlertsBatch.bind(this), ms)
setSendTimeout(s, ms, retryOf) ==
  LET id == FreshId(s)
  IN [s EXCEPT
        !.timers = ArmTimer(s.timers,
                            [id |-> id, kind |-> "send", rem |-> ms, who |-> 0,
                             retryOf |-> retryOf]),
        !.timeoutId = id]

\* clearTimeout(id)
clearTimeout(ts, id) ==
  LET keep == {j \in 1..Len(ts) : ~(ts[j].kind = "send" /\ ts[j].id = id)}
      RECURSIVE Sel(_)
      Sel(j) == IF j > Len(ts) THEN <<>>
                ELSE (IF j \in keep THEN <<ts[j]>> ELSE <<>>) \o Sel(j + 1)
  IN Sel(1)

PendingSendTimers(ts) == {j \in 1..Len(ts) : ts[j].kind = "send"}

(* ----- the request body ----- *)

\* a literal of the serialized text, given character by character
RECURSIVE Lit(_)
Lit(cs) == IF cs = <<>> THEN <<>> ELSE Concat(Rep(Head(cs), 1), Lit(Tail(cs)))

\* the characters JSON.stringify puts a backslash before: " and \ (the
\* strings of the model hold no control character)
Escapes(s) ==
  LET RECURSIVE Count(_)
      Count(k) ==
        IF k = 0 THEN 0
        ELSE (IF s[k][1] \in {"\"", "\\"} THEN s[k][2] ELSE 0) + Count(k - 1)
  IN Count(Len(s))

\* JSON.stringify(s).length of a string s: the quotes, the characters and the
\* backslashes
JSONStringLength(s) == 2 + Length(s) + Escapes(s)

\* the label and env the client is constructed with
Label == Lit(<<"t", "e", "s", "t">>)
Env == Lit(<<"t", "e", "s", "t">>)

\* `**${this.label} | ${this.env}**`
Content ==
  Concat(Concat(Concat(Concat(Rep("*", 2), Label),
                       Lit(<<" ", "|", " ">>)), Env), Rep("*", 2))

\* {"name":N,"value":V}
FieldJSONLength(f) ==
  Length(Lit(<<"{", "\"", "n", "a", "m", "e", "\"", ":">>))
    + JSONStringLength(f.name)
    + Length(Lit(<<",", "\"", "v", "a", "l", "u", "e", "\"", ":">>))
    + JSONStringLength(f.value)
    + Length(Lit(<<"}">>))

\* the lengths of the members JSON.stringify writes for an embed of the batch:
\* color (a number, left out when undefined), timestamp, fields, and title,
\* description and footer ({"text":F}) where they were set
EmbedMemberLengths(e) ==
  (IF e.color = <<>> THEN <<>>
   ELSE <<Length(Lit(<<"\"", "c", "o", "l", "o", "r", "\"", ":">>))
            + Len(ToString(e.color[1]))>>)
  \o <<Length(Lit(<<"\"", "t", "i", "m", "e", "s", "t", "a", "m", "p", "\"",
                    ":">>))
         + JSONStringLength(e.timestamp)>>
  \o <<Length(Lit(<<"\"", "f", "i", "e", "l", "d", "s", "\"", ":", "[">>))
         + LET RECURSIVE Sum(_)
               Sum(k) ==
                 IF k = 0 THEN 0
                 ELSE FieldJSONLength(e.fields[k]) + Sum(k - 1)
           IN Sum(Len(e.fields)) + (Len(e.fields) - 1)
         + Length(Lit(<<"]">>))>>
  \o (IF e.title = Undefined THEN <<>>
      ELSE <<Length(Lit(<<"\"", "t", "i", "t", "l", "e", "\"", ":">>))
               + JSONStringLength(e.title)>>)
  \o (IF e.description = Undefined THEN <<>>
      ELSE <<Length(Lit(<<"\"", "d", "e", "s", "c", "r", "i", "p", "t", "i",
                          "o", "n", "\"", ":">>))
               + JSONStringLength(e.description)>>)
  \o (IF e.footer = Undefined THEN <<>>
      ELSE <<Length(Lit(<<"\"", "f", "o", "o", "t", "e", "r", "\"", ":", "{",
                          "\"", "t", "e", "x", "t", "\"", ":">>))
               + JSONStringLength(e.footer)
               + Length(Lit(<<"}">>))>>)

\* the sum of the lengths ls and of the commas between them
JoinedLength(ls) ==
  LET RECURSIVE Sum(_)
      Sum(k) == IF k = 0 THEN 0 ELSE ls[k] + Sum(k - 1)
  IN Sum(Len(ls)) + (IF Len(ls) > 0 THEN Len(ls) - 1 ELSE 0)

\* JSON.stringify(embed).length
EmbedJSONLength(e) ==
  Length(Lit(<<"{">>)) + JoinedLength(EmbedMemberLengths(e))
    + Length(Lit(<<"}">>))

\* lines 89-92: stringify({embeds: batch, content: ...}).length
BodyLength(batch) ==
  Length(Lit(<<"{", "\"", "e", "m", "b", "e", "d", "s", "\"", ":", "[">>))
    + JoinedLength([i \in 1..Len(batch) |-> EmbedJSONLength(batch[i])])
    + Length(Lit(<<"]", ",", "\"", "c", "o", "n", "t", "e", "n", "t", "\"",
                   ":">>))
    + JSONStringLength(Content)
    + Length(Lit(<<"}">>))

(* ----- sendAlertsBatch ----- *)

\* lines 117-127: drop the head of the queue, re-arm or go idle; the result
\* is the state and the value returned
sendAlertsBatchFinish(s, batch, timeoutOverrideMs) ==
  LET rest == SubSeq(s.embeds, BATCH_SIZE + 1, Len(s.embeds))
      gone == SubSeq(s.embeds, 1,
                     IF Len(s.embeds) < BATCH_SIZE THEN Len(s.embeds)
                     ELSE BATCH_SIZE)
      timeoutMs == IF timeoutOverrideMs # 0 THEN timeoutOverrideMs
                   ELSE DEFAULT_TIMEOUT_MS
  IN With([s EXCEPT !.embeds = rest,
                    !.lost = @ \cup (Cids(gone) \ Cids(batch))],
          LAMBDA s1 :
            IF Len(rest) > 0
            THEN [s |-> setSendTimeout(s1, timeoutMs, 0), ret |-> timeoutMs,
                  suspended |-> FALSE]
            ELSE [s |-> [s1 EXCEPT !.isSending = FALSE], ret |-> 0,
                  suspended |-> FALSE])

\* history: a send attempt caused by the handling of 429 number k (k = 0: by
\* anything else)
NoteAttempt(s, k, batch) ==
  IF k = 0 THEN s
  ELSE [s EXCEPT
          !.rl[k].attempts = @ + 1,
          !.rl[k].early = @ \/ s.rl[k].due > 0,
          !.rl[k].moved =
             @ \/ ~(/\ Len(batch) >= Len(s.rl[k].front)
                    /\ SubSeq(CidSeq(batch), 1, Len(s.rl[k].front))
                         = s.rl[k].front)]

\* lines 68-93: up to the await of fetch (or, disabled, to the end)
sendAlertsBatch(s, timeoutOverrideMs, caller, cause) ==
  IF Len(s.embeds) = 0 THEN [s |-> s, ret |-> 0, suspended |-> FALSE]
  ELSE
    With(fillBatch(s.embeds, BATCH_SIZE), LAMBDA batch :
    With([s EXCEPT
            !.isSending = TRUE,
            !.timers = IF s.timeoutId # 0
                       THEN clearTimeout(s.timers, s.timeoutId)
                       ELSE s.timers,
            !.handed = @ \cup Cids(batch)], LAMBDA s1 :
    With(NoteAttempt(s1, cause, batch), LAMBDA s2 :
      IF disabled
      THEN sendAlertsBatchFinish(s2, batch, timeoutOverrideMs)
      ELSE [s |-> [s2 EXCEPT
                     !.calls = Append(@, [batch |-> batch,
                                          override |-> timeoutOverrideMs,
                                          caller |-> caller,
                                          phase |-> "fetch"])],
            ret |-> 0, suspended |-> TRUE])))

\* res.headers.get('Retry-After') is <<>> (null) or <<n>> (the text of n);
\* retryAfter ? parseInt(retryAfter) : 30
retryAfterSeconds(retryAfter) ==
  IF retryAfter = <<>> THEN DEFAULT_RETRY_AFTER_SECONDS ELSE retryAfter[1]

\* lines 96-110: the 429 branch; k numbers the 429 responses
sendAlertsBatchRateLimited(s, batch, retryAfter, k) ==
  LET timeoutMs == retryAfterSeconds(retryAfter) * 1000
  IN [s |-> [setSendTimeout(s, timeoutMs, k) EXCEPT
               !.isSending = FALSE,
               !.rl = Append(@, [front |-> CidSeq(batch), due |-> timeoutMs,
                                 attempts |-> 0, early |-> FALSE,
                                 moved |-> FALSE])],
      ret |-> timeoutMs, suspended |-> FALSE]

(* ----- flush ----- *)

\* lines 144-151: the drain loop of flush() number p, from its head; cause
\* is the 429 whose wait the loop resumes from (or 0)
RECURSIVE flushLoop(_, _, _)
flushLoop(s, p, cause) ==
  IF Len(s.embeds) = 0
  THEN [s EXCEPT !.isFlushing = FALSE, !.flushers[p] = "done"]
  ELSE
    With(sendAlertsBatch(s, FLUSH_TIMEOUT_MS, p, cause), LAMBDA r :
      IF r.suspended THEN [r.s EXCEPT !.flushers[p] = "send"]
      ELSE IF r.ret # 0
      THEN [r.s EXCEPT
              !.flushers[p] = "wait",
              !.timers = ArmTimer(r.s.timers,
                                  [id |-> 0, kind |-> "wait", rem |-> r.ret,
                                   who |-> p, retryOf |-> 0])]
      ELSE flushLoop(r.s, p, 0))

\* flushResume with a wait that nothing ends (a promise never resolved)
flushResumeUnwoken(s, p, timeoutMs, cause) ==
  IF timeoutMs # 0
  THEN [s EXCEPT !.flushers[p] = "wait"]
  ELSE flushLoop(s, p, cause)

\* lines 145-148: sendAlertsBatch returned timeoutMs to flush() number p
flushResume(s, p, timeoutMs, cause) ==
  IF timeoutMs # 0
  THEN [s EXCEPT
          !.flushers[p] = "wait",
          !.timers = ArmTimer(s.timers,
                              [id |-> 0, kind |-> "wait", rem |-> timeoutMs,
                               who |-> p, retryOf |-> cause])]
  ELSE flushLoop(s, p, cause)

\* a sendAlertsBatch invocation returned: a timer's callback drops the value,
\* flush() goes on with it
Return(r0, caller, cause) ==
  With(r0, LAMBDA r :
    IF caller = 0 THEN r.s ELSE flushResume(r.s, caller, r.ret, cause))


(* ----- inputs ----- *)

Alert(title, description, footer, context, level) ==
  [title |-> title, description |-> description, footer |-> footer,
   context |-> context, level |-> level]

StringValue(s) == [kind |-> "string", text |-> s]

Entry(name, value) == [name |-> name, value |-> value]

\* the i-th key of a context: keys of one object differ, and none is
\* integer-like, so Object.entries lists them in insertion order
Key(i) == Rep("k", 1 + (i \div 16)) \o Rep("j", 1 + (i % 16))

\* stringify(alert), and stringify(v) of one of the context values in
\* alertToEmbeds, throws
stringifyThrows(alert) ==
  \E i \in 1..Len(alert.context) :
     stringify(alert.context[i].value) = TypeError

\* truncate(stringify(v), ...) of one of the context values in alertToEmbeds
\* throws: stringify(v) is undefined, and txt.length is read of it
truncateThrows(alert) ==
  \E i \in 1..Len(alert.context) :
     stringify(alert.context[i].value) = Undefined

\* addAlert(alert) throws: in the log line of the isFlushing branch, or in
\* alertToEmbeds
addAlertThrows(s, alert) ==
  IF s.isFlushing THEN stringifyThrows(alert)
  ELSE stringifyThrows(alert) \/ truncateThrows(alert)

\* one small container
SmallAlert ==
  Alert(Rep("T", 5), Undefined, Undefined,
        <<Entry(Key(1), StringValue(Rep("v", 3)))>>, "info")

\* two containers of 4043 characters each: only one fits a payload
WideAlert == Alert(Undefined, Rep("d", 8000), Undefined, <<>>, "warn")

\* eleven small containers: more than one payload holds
LongAlert ==
  Alert(Undefined, Undefined, Undefined,
        [i \in 1..264 |-> Entry(Key(i), StringValue(Rep("v", 1)))],
        "error")

\* a context value that refers to itself: const o = {}; o.self = o
CircularAlert ==
  Alert(Rep("T", 5), Undefined, Undefined,
        <<Entry(Key(1), [kind |-> "circular", text |-> <<>>])>>, "info")

ClientAlerts == {SmallAlert, WideAlert, LongAlert, CircularAlert}

\* what the transport may answer
RetryAfterHeaders == {<<>>, <<2>>}

Flushers == 1..MaxFlush

\* history: the containers of the queue carry the number of the addAlert
\* call and their place in its result
Tagged(es, n) ==
  [i \in 1..Len(es) |->
     [x \in (DOMAIN es[i]) \cup {"cid"} |->
        IF x = "cid" THEN <<n, i>> ELSE es[i][x]]]

Event(op, arg) == [op |-> op, arg |-> arg]

\* history: what a step that leads to s did: a flush() resolved, or a
\* transport call was issued
Outcome(s) ==
  IF \E p \in Flushers : flushers[p] # "done" /\ s.flushers[p] = "done"
  THEN "resolved"
  ELSE IF Len(s.calls) > Len(calls) THEN "fetch"
  ELSE ""

\* the calls and faults so far
Events ==
  nAlerts + n429 + nFail + nStop
    + Cardinality({p \in Flushers : flushers[p] # "ready"})

(* ----- the operations ----- *)

\* lines 49-66; an exception of stringify ends the call where it is thrown:
\* in the log line of the isFlushing branch, or in alertToEmbeds before the
\* push
addAlert(s, alert, n) ==
  IF s.isFlushing THEN s
  ELSE IF addAlertThrows(s, alert) THEN s
  ELSE With([s EXCEPT
               !.embeds = @ \o Tagged(alertToEmbeds(alert, TRUNCATED_SUFFIX,
                                                    randomUUID(n)), n)],
            LAMBDA s1 :
              IF s1.timeoutId = 0 /\ ~s1.isSending
              THEN setSendTimeout(s1, DEFAULT_TIMEOUT_MS, 0)
              ELSE s1)

AddAlert(alert) ==
  /\ nAlerts < MaxAlerts
  /\ Events < MaxEvents
  /\ nAlerts' = nAlerts + 1
  /\ \E s \in {[addAlert(Cur, alert, nAlerts + 1)
                 EXCEPT !.halted = FALSE]} :
        Apply(s, Event("addAlert",
                       IF addAlertThrows(Cur, alert) THEN "threw"
                       ELSE IF isFlushing THEN "dropped"
                       ELSE "accepted"))
  /\ UNCHANGED <<disabled, n429, nFail, nStop, pin, pout, lazy>>

\* lines 157-161
stop(s) ==
  IF s.timeoutId # 0
  THEN [s EXCEPT !.timers = clearTimeout(s.timers, s.timeoutId)]
  ELSE s

Stop ==
  /\ nStop < MaxStop
  /\ Events < MaxEvents
  /\ nStop' = nStop + 1
  /\ \E s \in {Cur} :
        Apply([stop(s) EXCEPT !.halted = (calls = <<>>)], Event("stop", ""))
  /\ UNCHANGED <<disabled, nAlerts, n429, nFail, pin, pout, lazy>>

\* lines 130-142: flush() number p is called
flush(s, p) ==
  IF s.isFlushing
  THEN [s EXCEPT
          !.flushers[p] = "poll",
          !.timers = ArmTimer(s.timers,
                              [id |-> 0, kind |-> "poll",
                               rem |-> FLUSH_POLL_MS, who |-> p,
                               retryOf |-> 0])]
  ELSE With([s EXCEPT !.isFlushing = TRUE],
            LAMBDA s1 : flushLoop(s1, p, 0))

Flush(p) ==
  /\ flushers[p] = "ready"
  /\ Events < MaxEvents
  /\ IF p = 1 THEN TRUE ELSE flushers[p - 1] # "ready"
  /\ \E s0 \in {Cur} :
     \E s \in {[flush(s0, p) EXCEPT !.halted = FALSE]} :
        Apply(s, Event("flush", Outcome(s)))
  /\ UNCHANGED <<disabled, nAlerts, n429, nFail, nStop, pin, pout, lazy>>

\* flushPoll of an interval that resolves without looking at isFlushing
flushPollUnchecked(s, t) ==
  With([s EXCEPT !.isFlushing = TRUE],
       LAMBDA s1 : flushLoop(s1, t.who, 0))

\* lines 133-138: the interval of a waiting flush() fires
flushPoll(s, t) ==
  IF s.isFlushing
  THEN [s EXCEPT !.timers = ArmTimer(s.timers,
                                     [t EXCEPT !.rem = FLUSH_POLL_MS])]
  ELSE With([s EXCEPT !.isFlushing = TRUE],
            LAMBDA s1 : flushLoop(s1, t.who, 0))

\* the event loop runs the callback of the first due timer
timerFire(s, t) ==
  IF t.kind = "send" THEN sendAlertsBatch(s, 0, 0, t.retryOf).s
  ELSE IF t.kind = "wait" THEN flushLoop(s, t.who, t.retryOf)
  ELSE flushPoll(s, t)

TimerFire ==
  /\ Len(timers) > 0
  /\ timers[1].rem = 0
  /\ \E t \in {timers[1]} :
     \E s \in {[Cur EXCEPT !.timers = Tail(timers)]} :
     \E r \in {timerFire(s, t)} :
        Apply(r, Event(IF t.kind = "send" THEN "timerSend"
                       ELSE IF t.kind = "wait" THEN "flushWake"
                       ELSE "flushPoll",
                       Outcome(r)))
  /\ UNCHANGED <<disabled, nAlerts, n429, nFail, nStop, pin, pout, lazy>>

WithoutCall(s, i) ==
  [s EXCEPT !.calls = SubSeq(@, 1, i - 1) \o SubSeq(@, i + 1, Len(@))]

\* history: the transport answered a payload with a non-429 response
Answered(s, batch) ==
  [s EXCEPT !.once = @ \cup Cids(batch),
            !.twice = @ \cup (Cids(batch) \cap s.once)]

\* lines 84-95: fetch resolves with res.ok
ResponseOk(i) ==
  /\ i \in 1..Len(calls)
  /\ calls[i].phase = "fetch"
  /\ \E c \in {calls[i]} :
     \E s \in {Answered(WithoutCall(Cur, i), c.batch)} :
     \E r \in {Return(sendAlertsBatchFinish(s, c.batch, c.override),
                      c.caller, 0)} :
        Apply(r, Event("responseOk", Outcome(r)))
  /\ UNCHANGED <<disabled, nAlerts, n429, nFail, nStop, pin, pout, lazy>>

\* lines 95-110: fetch resolves with status 429
Response429(i, retryAfter) ==
  /\ i \in 1..Len(calls)
  /\ calls[i].phase = "fetch"
  /\ n429 < Max429
  /\ Events < MaxEvents
  /\ n429' = n429 + 1
  /\ \E c \in {calls[i]} :
     \E s \in {WithoutCall(Cur, i)} :
     \E r \in {Return(sendAlertsBatchRateLimited(s, c.batch, retryAfter,
                                                 n429 + 1),
                      c.caller, n429 + 1)} :
        Apply(r, Event("response429", Outcome(r)))
  /\ UNCHANGED <<disabled, nAlerts, nFail, nStop, pin, pout, lazy>>

\* lines 95-112: fetch resolves with another non-ok status; res.text() is
\* awaited
ResponseFail(i) ==
  /\ i \in 1..Len(calls)
  /\ calls[i].phase = "fetch"
  /\ nFail < MaxFail
  /\ Events < MaxEvents
  /\ nFail' = nFail + 1
  /\ Apply(Answered([Cur EXCEPT !.calls[i].phase = "text"], calls[i].batch),
           Event("responseFail", ""))
  /\ UNCHANGED <<disabled, nAlerts, n429, nStop, pin, pout, lazy>>

\* lines 112-127: res.text() settles
TextDone(i) ==
  /\ i \in 1..Len(calls)
  /\ calls[i].phase = "text"
  /\ \E c \in {calls[i]} :
     \E s \in {WithoutCall(Cur, i)} :
     \E r \in {Return(sendAlertsBatchFinish(s, c.batch, c.override),
                      c.caller, 0)} :
        Apply(r, Event("textDone", Outcome(r)))
  /\ UNCHANGED <<disabled, nAlerts, n429, nFail, nStop, pin, pout, lazy>>

\* time passes, no further than the next timer
Elapse(s, d) ==
  [s EXCEPT
     !.timers = [j \in 1..Len(s.timers) |->
                   [s.timers[j] EXCEPT !.rem = @ - d]],
     !.rl = [k \in 1..Len(s.rl) |->
               [s.rl[k] EXCEPT !.due = IF @ > d THEN @ - d ELSE 0]]]

\* the amounts by which the clock may advance when the next timer is due in
\* rem: whole seconds, up to that timer
TickChoices(rem) == {1000 * k : k \in 1..(rem \div 1000)}

Tick ==
  /\ Len(timers) > 0
  /\ timers[1].rem > 0
  /\ \E d \in TickChoices(timers[1].rem) :
     \E s \in {Cur} :
        Apply(Elapse(s, d), Event("tick", ""))
  /\ UNCHANGED <<disabled, nAlerts, n429, nFail, nStop, pin, pout, lazy>>

InitClient ==
  /\ embeds = <<>>
  /\ timeoutId = 0
  /\ isSending = FALSE
  /\ isFlushing = FALSE
  /\ timers = <<>>
  /\ calls = <<>>
  /\ flushers = [p \in Flushers |-> "ready"]
  /\ nAlerts = 0
  /\ n429 = 0
  /\ nFail = 0
  /\ nStop = 0
  /\ ev = Event("new", "")
  /\ lost = {}
  /\ handed = {}
  /\ once = {}
  /\ twice = {}
  /\ rl = <<>>
  /\ halted = FALSE

Init ==
  /\ disabled \in BOOLEAN
  /\ InitClient
  /\ pin = <<>>
  /\ pout = <<>>
  /\ lazy = <<>>

(* ----- the packing of one alert, on its own ----- *)

PackTitles == {Undefined, <<>>, Rep("T", 5), Rep("T", 200), Rep("T", 201)}

\* a description of three chunks that differ: 4000 + 4000 + 500 characters
ThreeChunks == Rep("a", 3000) \o Rep("b", 3000) \o Rep("c", 2500)

PackDescriptions ==
  {Undefined, <<>>, Rep("d", 10), Rep("d", 4000), Rep("d", 4001),
   Rep("d", 8500), ThreeChunks}

PackFooters ==
  {Undefined, <<>>, Rep("f", 7), Rep("f", 2000), Rep("f", 2600)}

SmallEntry(i) == Entry(Key(i), StringValue(Rep("v", 3)))

\* name and value over their budgets: 240 + 1000 characters once truncated
BigEntry(i) ==
  Entry(Concat(Key(i), Rep("n", 300)), StringValue(Rep("v", 1200)))

BigintEntry(i) == Entry(Key(i), [kind |-> "bigint", text |-> Rep("9", 20)])

PackContextSizes == {1, 24, 25, 26, 51}

\* {b: 'vvv', 10: 'vvv', 9: 'vvv', '07': 'vvv'}: two array indices inserted
\* after a name and in descending order, and a name of digits that is no
\* array index
IndexContext ==
  <<Entry(Rep("b", 1), StringValue(Rep("v", 3))),
    Entry(Rep("1", 1) \o Rep("0", 1), StringValue(Rep("v", 3))),
    Entry(Rep("9", 1), StringValue(Rep("v", 3))),
    Entry(Rep("0", 1) \o Rep("7", 1), StringValue(Rep("v", 3)))>>

PackContexts ==
  {<<>>, IndexContext}
    \cup {[i \in 1..n |-> SmallEntry(i)] : n \in PackContextSizes}
    \cup {[i \in 1..n |-> BigEntry(i)] : n \in PackContextSizes}
    \cup {[i \in 1..n |-> IF i <= 4 THEN BigEntry(i) ELSE BigintEntry(i)] :
            n \in PackContextSizes}

\* the default suffix and one as long as the smallest budget (TITLE)
PackSuffixes == {TRUNCATED_SUFFIX, Rep("~", TITLE)}

PackInputs ==
  {[alert |-> Alert(t, d, f, c, "error"), suffix |-> x] :
     t \in PackTitles, d \in PackDescriptions, f \in PackFooters,
     c \in PackContexts, x \in PackSuffixes}

InitPack ==
  /\ disabled = FALSE
  /\ InitClient
  /\ pin \in PackInputs
  /\ pout = <<>>
  /\ lazy = <<>>

\* alertToEmbeds(pin.alert, pin.suffix); the result is kept as <<result>>
PackAlert ==
  /\ pout = <<>>
  /\ pout' = <<alertToEmbeds(pin.alert, pin.suffix, randomUUID(1))>>
  /\ UNCHANGED <<clientVars, pin, lazy>>

NextPack == PackAlert

SpecPack == InitPack /\ [][NextPack]_vars

(* ----- truncate, on its own ----- *)

TruncateTexts ==
  {<<>>, Rep("A", 1), Rep("A", 5), Rep("A", 3) \o Rep("B", 4),
   Rep("A", 200), Rep("A", 300), Rep("A", 4) \o Rep(".", 3),
   Rep("A", 199) \o Rep(".", 3)}

TruncateMaxima == {0, 1, 3, 5, 7, TITLE}

TruncateSuffixes ==
  {<<>>, TRUNCATED_SUFFIX, Rep("~", 1), Rep("A", 2), Rep("~", 5)}

\* every call truncate(txt, max, suffix) with suffix.length <= max
TruncateInputs ==
  {in \in [txt : TruncateTexts, max : TruncateMaxima,
           suffix : TruncateSuffixes] :
     Length(in.suffix) <= in.max}

InitTruncate ==
  /\ disabled = FALSE
  /\ InitClient
  /\ pin \in TruncateInputs
  /\ pout = <<>>
  /\ lazy = <<>>

Truncate ==
  /\ pout = <<>>
  /\ pout' = <<truncate(pin.txt, pin.max, pin.suffix)>>
  /\ UNCHANGED <<clientVars, pin, lazy>>

\* truncate applied to its own result
TruncateAgain ==
  /\ Len(pout) = 1
  /\ pout' = Append(pout, truncate(pout[1], pin.max, pin.suffix))
  /\ UNCHANGED <<clientVars, pin, lazy>>

NextTruncate == Truncate \/ TruncateAgain

SpecTruncate == InitTruncate /\ [][NextTruncate]_vars

(* ----- fillBatch, on its own ----- *)

\* the characters a container holding only the alertId field costs
ALERT_ID_COST == Length(AlertIdName) + UUID_LENGTH

\* the i-th container of a queue, costing cost characters: the alertId field
\* of alert i and a description of the remaining characters
QueueEmbed(i, cost) ==
  [color |-> getColorForLevel("info"),
   timestamp |-> toISOString,
   title |-> Undefined,
   description |-> Rep("q", cost - ALERT_ID_COST),
   footer |-> Undefined,
   fields |-> <<[name |-> AlertIdName, value |-> randomUUID(i)]>>,
   charsCount |-> cost]

\* costs under, at half of, at and over the budget of a payload
QueueCosts == {100, 2950, 3000, EMBED_TOTAL_CHARS, EMBED_TOTAL_CHARS + 1}

MaxQueueLen == 3

\* queues longer than a payload takes, of small containers
LongQueueLens == {MAX_EMBEDS_PER_PAYLOAD + 1, MAX_EMBEDS_PER_PAYLOAD + 2}

Queues ==
  {[i \in 1..Len(cs) |-> QueueEmbed(i, cs[i])] :
     cs \in UNION {[1..n -> QueueCosts] : n \in 0..MaxQueueLen}}
  \cup {[i \in 1..n |-> QueueEmbed(i, 100)] : n \in LongQueueLens}

BatchSizes ==
  {0, 1, 2, MAX_EMBEDS_PER_PAYLOAD, MAX_EMBEDS_PER_PAYLOAD + 1}

FillBatchInputs == [source : Queues, batchSize : BatchSizes]

InitFillBatch ==
  /\ disabled = FALSE
  /\ InitClient
  /\ pin \in FillBatchInputs
  /\ pout = <<>>
  /\ lazy = <<>>

FillBatch ==
  /\ pout = <<>>
  /\ pout' = <<fillBatch(pin.source, pin.batchSize)>>
  /\ UNCHANGED <<clientVars, pin, lazy>>

NextFillBatch == FillBatch

SpecFillBatch == InitFillBatch /\ [][NextFillBatch]_vars

(* ------------------------------------------------------------------ *)
(* lazy-loading-client.ts: LazyLoadingAlertsClient                     *)
(* ------------------------------------------------------------------ *)

\* a context value that is undefined: JSON.stringify leaves the key out of
\* the log line, alertToEmbeds throws on it
UndefinedAlert ==
  Alert(Rep("T", 5), Undefined, Undefined,
        <<Entry(Key(1), [kind |-> "undefined", text |-> <<>>])>>, "info")

LazyAlerts == {SmallAlert, WideAlert, UndefinedAlert, CircularAlert}

\* the most alerts buffered before init
MaxBuffered == 2

\* lines 24-30: the wrapper after construction.  client is FALSE for null;
\* awaiting is the flush() processQueue is suspended on (0: none).
\* history: passed lists the alerts processQueue handed to the client's
\* addAlert, flushAfter is <<k>> once processQueue called the client's
\* flush(), after k alerts
NotInitialized ==
  [client |-> FALSE, queuedAlerts |-> <<>>, flushRequested |-> FALSE,
   awaiting |-> 0, passed |-> <<>>, flushAfter |-> <<>>]

\* lines 52-54: for (const alert of this.queuedAlerts)
\* this.client.addAlert(alert); an exception of addAlert leaves the loop
RECURSIVE replay(_, _, _, _)
replay(s, queue, k, n) ==
  IF k > Len(queue) THEN [s |-> s, passed |-> queue, threw |-> FALSE]
  ELSE IF addAlertThrows(s, queue[k])
  THEN [s |-> s, passed |-> SubSeq(queue, 1, k), threw |-> TRUE]
  ELSE With(addAlert(s, queue[k], n + k),
            LAMBDA s1 : replay(s1, queue, k + 1, n))

\* lines 44-62, up to the await of flush(); an exception rejects the promise
\* of processQueue, which init() drops (void)
processQueue(s, lz, n) ==
  IF ~lz.client \/ Len(lz.queuedAlerts) = 0 THEN [s |-> s, lazy |-> lz]
  ELSE With(replay(s, lz.queuedAlerts, 1, n), LAMBDA r :
         IF r.threw
         THEN [s |-> r.s, lazy |-> [lz EXCEPT !.passed = r.passed]]
         ELSE IF lz.flushRequested
         THEN [s |-> flush(r.s, 1),
               lazy |-> [lz EXCEPT !.queuedAlerts = <<>>,
                                   !.passed = r.passed,
                                   !.flushAfter = <<Len(r.passed)>>,
                                   !.awaiting = 1]]
         ELSE [s |-> r.s,
               lazy |-> [lz EXCEPT !.queuedAlerts = <<>>,
                                   !.passed = r.passed]])

\* lines 64-73
init(s, lz, n) ==
  IF lz.client THEN [s |-> s, lazy |-> lz]
  ELSE processQueue(s, [lz EXCEPT !.client = TRUE], n)

LazyInit ==
  /\ \E r \in {init(Cur, lazy, nAlerts)} :
        /\ Apply(r.s, Event("init", IF lazy.client THEN "again" ELSE "first"))
        /\ lazy' = r.lazy
        /\ nAlerts' = nAlerts + (Len(r.lazy.passed) - Len(lazy.passed))
  /\ UNCHANGED <<disabled, n429, nFail, nStop, pin, pout>>

\* lines 60-61: flush() resolved, processQueue goes on
LazyFlushDone ==
  /\ lazy.awaiting # 0
  /\ flushers[lazy.awaiting] = "done"
  /\ lazy' = [lazy EXCEPT !.flushRequested = FALSE, !.awaiting = 0]
  /\ Apply(Cur, Event("processQueue", "flushed"))
  /\ UNCHANGED <<disabled, nAlerts, n429, nFail, nStop, pin, pout>>

\* lines 77-83; logNotInitialized (lines 32-42) stringifies the alert
LazyAddAlert(alert) ==
  IF lazy.client THEN AddAlert(alert)
  ELSE /\ Len(lazy.queuedAlerts) < MaxBuffered
       /\ lazy' = IF stringifyThrows(alert) THEN lazy
                  ELSE [lazy EXCEPT !.queuedAlerts = Append(@, alert)]
       /\ Apply(Cur, Event("lazyAddAlert",
                           IF stringifyThrows(alert) THEN "threw"
                           ELSE "queued"))
       /\ UNCHANGED <<disabled, nAlerts, n429, nFail, nStop, pin, pout>>

\* lines 85-92
LazyFlush ==
  IF lazy.client THEN \E p \in Flushers : Flush(p)
  ELSE /\ lazy' = [lazy EXCEPT !.flushRequested = TRUE]
       /\ Apply(Cur, Event("lazyFlush", ""))
       /\ UNCHANGED <<disabled, nAlerts, n429, nFail, nStop, pin, pout>>

\* lines 94-99
LazyStop ==
  IF lazy.client THEN Stop
  ELSE /\ Apply(Cur, Event("lazyStop", ""))
       /\ UNCHANGED <<disabled, nAlerts, n429, nFail, nStop, pin, pout,
                      lazy>>

InitLazy ==
  /\ disabled = FALSE
  /\ InitClient
  /\ pin = <<>>
  /\ pout = <<>>
  /\ lazy = NotInitialized

NextLazy ==
  \/ LazyInit
  \/ LazyFlushDone
  \/ \E a \in LazyAlerts : LazyAddAlert(a)
  \/ LazyFlush
  \/ LazyStop
  \/ TimerFire
  \/ \E i \in 1..Len(calls) : ResponseOk(i)
  \/ \E i \in 1..Len(calls), h \in RetryAfterHeaders : Response429(i, h)
  \/ \E i \in 1..Len(calls) : ResponseFail(i)
  \/ \E i \in 1..Len(calls) : TextDone(i)
  \/ Tick

SpecLazy == InitLazy /\ [][NextLazy]_vars

(* ----- the client driven by its timers only ----- *)

\* an enabled client on which flush() and stop() are never called and whose
\* transport answers every call with ok
InitTimers ==
  /\ disabled = FALSE
  /\ InitClient
  /\ pin = <<>>
  /\ pout = <<>>
  /\ lazy = <<>>

NextTimers ==
  \/ \E a \in ClientAlerts : AddAlert(a)
  \/ TimerFire
  \/ \E i \in 1..Len(calls) : ResponseOk(i)
  \/ Tick

\* every due timer fires, time passes, every transport call is answered
TimerSpec ==
  /\ InitTimers
  /\ [][NextTimers]_vars
  /\ WF_vars(TimerFire)
  /\ WF_vars(Tick)
  /\ WF_vars(\E i \in 1..Len(calls) : ResponseOk(i))

(* ----- the client ----- *)

Next ==
  \/ \E a \in ClientAlerts : AddAlert(a)
  \/ \E p \in Flushers : Flush(p)
  \/ Stop
  \/ TimerFire
  \/ \E i \in 1..Len(calls) : ResponseOk(i)
  \/ \E i \in 1..Len(calls), h \in RetryAfterHeaders : Response429(i, h)
  \/ \E i \in 1..Len(calls) : ResponseFail(i)
  \/ \E i \in 1..Len(calls) : TextDone(i)
  \/ Tick

Spec == Init /\ [][Next]_vars

\* the same client with fewer calls and faults, for the behaviours without
\* end
NextFair ==
  \/ Events < MaxFairEvents /\ \E a \in ClientAlerts : AddAlert(a)
  \/ Events < MaxFairEvents /\ \E p \in Flushers : Flush(p)
  \/ Events < MaxFairEvents /\ Stop
  \/ TimerFire
  \/ \E i \in 1..Len(calls) : ResponseOk(i)
  \/ Events < MaxFairEvents
       /\ \E i \in 1..Len(calls), h \in RetryAfterHeaders : Response429(i, h)
  \/ Events < MaxFairEvents /\ \E i \in 1..Len(calls) : ResponseFail(i)
  \/ \E i \in 1..Len(calls) : TextDone(i)
  \/ Tick

\* every transport call is answered (429 and failures do not recur for
\* ever: they are counted), every due timer fires, time passes
FairSpec ==
  /\ Init
  /\ [][NextFair]_vars
  /\ WF_vars(TimerFire)
  /\ WF_vars(Tick)
  /\ WF_vars(\E i \in 1..Len(calls) : ResponseOk(i))
  /\ WF_vars(\E i \in 1..Len(calls) : TextDone(i))

(* ------------------------------------------------------------------ *)
(* The claims                                                         *)
(* ------------------------------------------------------------------ *)

\* C1: a container leaves the queue only as a member of the batch that
\* fillBatch built for the send attempt that removes it (so whatever was
\* enqueued has been in a payload once a flush has drained the queue).
C1_RemovedOnlyWithItsBatch == lost = {}

\* C2: no container is included in more than one payload that the
\* transport answered with a non-429 response.
C2_NoContainerAnsweredTwice == twice = {}

\* C3: every flush() call that has started eventually resolves, whatever
\* responses its batches got, and at the step that resolves it the queue is
\* empty and isFlushing is false.
C3_FlushResolves ==
  /\ \A p \in Flushers :
       (flushers[p] \in {"poll", "send", "wait"}) ~> (flushers[p] = "done")
  /\ [][\A p \in Flushers :
          (flushers[p] # "done" /\ flushers'[p] = "done")
            => (embeds' = <<>> /\ ~isFlushing')]_vars

\* C3, witness: a flush() resolved after one of its batches got a 429
C3_Witness ==
  /\ ev.arg = "resolved"
  /\ n429 > 0
  /\ embeds = <<>>
  /\ ~isFlushing

\* C4: an addAlert accepted while no send timer is pending and no send is in
\* flight leaves a send timer pending.
C4_AcceptedAddAlertSchedules ==
  [][(/\ ev' = Event("addAlert", "accepted")
      /\ ~isFlushing
      /\ PendingSendTimers(timers) = {}
      /\ calls = <<>>)
       => PendingSendTimers(timers') # {}]_vars

\* C5: the handling of a 429 leaves the queue as it is and causes exactly one
\* later send attempt, not before the Retry-After delay has passed, whose
\* batch starts with the containers of the rate-limited one.
C5_RateLimitedRetriedOnce ==
  [][/\ ev'.op = "response429" => embeds' = embeds
     /\ \A k \in 1..Len(rl') :
          /\ rl'[k].attempts <= 1
          /\ ~rl'[k].early
          /\ ~rl'[k].moved]_vars

\* C6: addAlert during a flush drops the alert: the queue, the timer handle,
\* the armed timers and the sending flag are as before the call, and the
\* call raises no error.
C6_AddAlertDroppedWhileFlushing ==
  [][(ev'.op = "addAlert" /\ isFlushing)
       => /\ embeds' = embeds
          /\ timeoutId' = timeoutId
          /\ timers' = timers
          /\ isSending' = isSending
          /\ calls' = calls
          /\ ev'.arg # "threw"]_vars

\* C7: a disabled client issues no transport call, and each of its send
\* steps removes exactly its batch from the queue.
C7_DisabledSendsRemoveTheirBatch ==
  disabled => (calls = <<>> /\ once = {} /\ lost = {})

\* C8: stop() leaves the queue and the calls in flight alone and cancels the
\* pending send timer; called with no call in flight, it is followed by no
\* timer-driven transport call until addAlert or flush() is called.
C8_StopHaltsTimerDrivenSends ==
  [][/\ ev'.op = "stop"
          => /\ embeds' = embeds
             /\ calls' = calls
             /\ PendingSendTimers(timers') = {}
     /\ (halted /\ ev'.op = "timerSend") => ev'.arg # "fetch"]_vars

\* the sum of the lengths of the texts of container e
EmbedCost(e) ==
  LET RECURSIVE FieldsCost(_)
      FieldsCost(k) ==
        IF k = 0 THEN 0
        ELSE Length(e.fields[k].name) + Length(e.fields[k].value)
               + FieldsCost(k - 1)
  IN Length(e.title) + Length(e.description) + Length(e.footer)
       + FieldsCost(Len(e.fields))

\* how many containers of es have their title / description / footer set
Filled(es, kind) ==
  Cardinality({i \in 1..Len(es) : Truthy(Slot(es[i], kind))})

SegmentsOf(in, kind) ==
  LET segs == Segments(in.alert, in.suffix)
  IN Cardinality({i \in 1..Len(segs) : segs[i].kind = kind})

\* C9: every container alertToEmbeds returns costs at most 5900 characters,
\* its charsCount being the sum of the lengths of its title, description,
\* footer and field names and values (alertId field included); it has at most
\* 25 fields; and no container got two titles, descriptions or footers (each
\* such segment is still the one of its container).
C9_ContainersWithinLimits ==
  pout # <<>> =>
    /\ \A i \in 1..Len(pout[1]) :
         /\ pout[1][i].charsCount <= EMBED_TOTAL_CHARS
         /\ pout[1][i].charsCount = EmbedCost(pout[1][i])
         /\ Len(pout[1][i].fields) <= EMBED_MAX_FIELDS
    /\ \A kind \in {"title", "description", "footer"} :
         Filled(pout[1], kind) = SegmentsOf(pin, kind)

\* C9, witness: a result of several containers with one at the field limit
\* and over 5000 characters, for an alert with title, description and footer
C9_Witness ==
  /\ pout # <<>>
  /\ Len(pout[1]) > 2
  /\ Truthy(pin.alert.title)
  /\ Length(pin.alert.description) > DESCRIPTION
  /\ Truthy(pin.alert.footer)
  /\ \E i \in 1..Len(pout[1]) :
       /\ Len(pout[1][i].fields) = EMBED_MAX_FIELDS
       /\ pout[1][i].charsCount > 5000

\* the cost of all the segments of the alert and the alertId field
ContentCost(in) ==
  LET segs == Segments(in.alert, in.suffix)
      RECURSIVE Cost(_)
      Cost(k) ==
        IF k = 0 THEN 0
        ELSE (IF segs[k].kind = "field"
              THEN Length(segs[k].content.name)
                     + Length(segs[k].content.value)
              ELSE Length(segs[k].content))
             + Cost(k - 1)
  IN Length(AlertIdName) + UUID_LENGTH + Cost(Len(segs))

\* an alert of at most one description chunk and at most n context entries
\* that costs no more than one container holds
SmallerThanOneContainer(in, n) ==
  /\ Length(in.alert.description) <= DESCRIPTION
  /\ Len(in.alert.context) <= n
  /\ ContentCost(in) <= EMBED_TOTAL_CHARS

\* the result is one container with every segment of the alert and the
\* alertId field, the context fields in source order
OneContainerWithAll(in, out) ==
  /\ Len(out) = 1
  /\ out[1].title = preparedTitle(in.alert, in.suffix)
  /\ out[1].description =
       (IF Truthy(in.alert.description) THEN in.alert.description
        ELSE Undefined)
  /\ out[1].footer = preparedFooter(in.alert, in.suffix)
  /\ out[1].fields =
       <<[name |-> AlertIdName, value |-> randomUUID(1)]>>
         \o preparedFields(in.alert, in.suffix)

C11_EmptyAlertOneContainer ==
  (pout # <<>> /\ Segments(pin.alert, pin.suffix) = <<>>)
    => /\ Len(pout[1]) = 1
       /\ pout[1][1].fields =
            <<[name |-> AlertIdName, value |-> randomUUID(1)]>>
       /\ ~Truthy(pout[1][1].title)
       /\ ~Truthy(pout[1][1].description)
       /\ ~Truthy(pout[1][1].footer)

\* the containers alertToEmbeds returns for each alert the client is given,
\* per addAlert call number
Packed ==
  [a \in ClientAlerts \ {CircularAlert}, n \in 1..(MaxAlerts + 1) |->
     alertToEmbeds(a, TRUNCATED_SUFFIX, randomUUID(n))]

Untagged(e) == [x \in (DOMAIN e) \ {"cid"} |-> e[x]]

\* C12: every container in the queue has the alertId field as its first
\* field; two queued containers carry the same alertId value exactly when the
\* same addAlert call produced them; and the containers of one call hold the
\* segments of one alert only (each is the container alertToEmbeds returns for
\* that one alert at its position).
C12_AlertIdPerAddAlertCall ==
  /\ \A i \in 1..Len(embeds) :
        /\ Len(embeds[i].fields) >= 1
        /\ embeds[i].fields[1].name = AlertIdName
  /\ \A i, j \in 1..Len(embeds) :
        (embeds[i].fields[1].value = embeds[j].fields[1].value)
          <=> (embeds[i].cid[1] = embeds[j].cid[1])
  /\ \A n \in {embeds[i].cid[1] : i \in 1..Len(embeds)} :
        \E a \in ClientAlerts \ {CircularAlert} :
           \A i \in 1..Len(embeds) :
              embeds[i].cid[1] = n
                => /\ embeds[i].cid[2] <= Len(Packed[a, n])
                   /\ Untagged(embeds[i]) = Packed[a, n][embeds[i].cid[2]]

\* two alerts queued before any send began, one of them in several containers
C12_Witness ==
  /\ handed = {}
  /\ calls = <<>>
  /\ \E i, j, k \in 1..Len(embeds) :
        /\ embeds[i].cid[1] = 1
        /\ embeds[j].cid[1] = 2
        /\ k # j
        /\ embeds[k].cid[1] = 2

\* the segments one container holds, read as title, description, fields after
\* the alertId field, footer
ReadContainer(e) ==
  (IF Truthy(e.title) THEN <<[kind |-> "title", content |-> e.title]>>
   ELSE <<>>)
  \o (IF Truthy(e.description)
      THEN <<[kind |-> "description", content |-> e.description]>>
      ELSE <<>>)
  \o [i \in 1..(Len(e.fields) - 1) |->
        [kind |-> "field", content |-> e.fields[i + 1]]]
  \o (IF Truthy(e.footer) THEN <<[kind |-> "footer", content |-> e.footer]>>
      ELSE <<>>)

\* the segments of the containers es, read in container order
RECURSIVE ReadOut(_)
ReadOut(es) ==
  IF es = <<>> THEN <<>> ELSE ReadContainer(Head(es)) \o ReadOut(Tail(es))

\* the segment list of the alert in source order: title, description chunks,
\* the fields of the context entries in insertion order, footer
SourceOrderSegments(in) ==
  LET t == preparedTitle(in.alert, in.suffix)
      f == preparedFooter(in.alert, in.suffix)
      d == descriptionChunks(in.alert)
      c == in.alert.context
  IN (IF Truthy(t) THEN <<[kind |-> "title", content |-> t]>> ELSE <<>>)
     \o [i \in 1..Len(d) |-> [kind |-> "description", content |-> d[i]]]
     \o [i \in 1..Len(c) |->
           [kind |-> "field",
            content |->
              [name  |-> truncate(c[i].name, FIELD_NAME, in.suffix),
               value |-> truncate(stringify(c[i].value), FIELD_VALUE,
                                  in.suffix)]]]
     \o (IF Truthy(f) THEN <<[kind |-> "footer", content |-> f]>> ELSE <<>>)

\* C13: the containers alertToEmbeds returns, read in order (in each its
\* title, description, fields after the alertId field, footer), give exactly
\* the segment list of the alert in source order: title, description chunks
\* in order, context fields in insertion order, footer; none is dropped,
\* duplicated or reordered.
C13_SegmentOrderPreserved ==
  pout # <<>> => ReadOut(pout[1]) = SourceOrderSegments(pin)

\* the packing loop by itself keeps the list it is given: the containers read
\* in order give the segments in the order of the list built at lines 103-110
PackingKeepsSegments ==
  pout # <<>> => ReadOut(pout[1]) = Segments(pin.alert, pin.suffix)

\* the description values of the containers es, concatenated in container
\* order (a container without description adds nothing)
RECURSIVE JoinedDescriptions(_)
JoinedDescriptions(es) ==
  IF es = <<>> THEN <<>>
  ELSE Concat(IF Truthy(Head(es).description) THEN Head(es).description
              ELSE <<>>,
              JoinedDescriptions(Tail(es)))

\* C14: the description values of the containers alertToEmbeds returns,
\* concatenated in container order, are the original description exactly;
\* every one of them has at most 4000 characters; and an empty (or absent)
\* description leaves every container without description.
C14_DescriptionLossless ==
  pout # <<>> =>
    /\ JoinedDescriptions(pout[1])
         = (IF Truthy(pin.alert.description) THEN pin.alert.description
            ELSE <<>>)
    /\ \A i \in 1..Len(pout[1]) :
          Truthy(pout[1][i].description)
            => Length(pout[1][i].description) <= DESCRIPTION
    /\ ~Truthy(pin.alert.description)
         => \A i \in 1..Len(pout[1]) : ~Truthy(pout[1][i].description)

\* a description of three different chunks, split over three containers, the
\* first two chunks of exactly 4000 characters
C14_Witness ==
  /\ pout # <<>>
  /\ pin.alert.description = ThreeChunks
  /\ Cardinality({i \in 1..Len(pout[1]) :
                    Length(pout[1][i].description) = DESCRIPTION
                      /\ Truthy(pout[1][i].description)}) = 2
  /\ \E i \in 1..Len(pout[1]) :
        pout[1][i].description = Rep("c", 500)

\* C15: with suffix.length <= max, truncate returns the text unchanged when
\* its length is <= max; otherwise the result has exactly max characters, its
\* first max - suffix.length characters are those of the text and the rest is
\* the suffix; and truncate applied to the result returns the result.
C15_Truncate ==
  /\ Len(pout) >= 1 =>
       IF Length(pin.txt) <= pin.max
       THEN pout[1] = pin.txt
       ELSE /\ Length(pout[1]) = pin.max
            /\ TakeChars(pout[1], pin.max - Length(pin.suffix))
                 = TakeChars(pin.txt, pin.max - Length(pin.suffix))
            /\ DropChars(pout[1], pin.max - Length(pin.suffix)) = pin.suffix
  /\ Len(pout) >= 2 => pout[2] = pout[1]

\* a text of two runs cut inside its second run, truncated twice
C15_Witness ==
  /\ Len(pout) = 2
  /\ pin.txt = Rep("A", 3) \o Rep("B", 4)
  /\ pin.max = 5
  /\ pin.suffix = Rep("~", 1)
  /\ pout[1] = Rep("A", 3) \o Rep("B", 1) \o Rep("~", 1)

\* the sum of the charsCount of the first k containers of q
RECURSIVE PrefixCost(_, _)
PrefixCost(q, k) ==
  IF k = 0 THEN 0 ELSE q[k].charsCount + PrefixCost(q, k - 1)

\* the first k containers of q fit a payload of at most n containers
PrefixFits(q, k, n) == k <= n /\ PrefixCost(q, k) <= EMBED_TOTAL_CHARS

\* C16: fillBatch returns a prefix of the queue (the same containers in the
\* same order without their charsCount) of at most maxCount containers whose
\* charsCount sum to at most 5900, and no longer prefix has both properties;
\* when the first container alone is over 5900 the batch is empty.
C16_FillBatchLongestPrefix ==
  pout # <<>> =>
    LET q == pin.source
        b == pout[1]
    IN /\ Len(b) <= Len(q)
       /\ \A i \in 1..Len(b) :
             /\ DOMAIN b[i] = (DOMAIN q[i]) \ {"charsCount"}
             /\ \A x \in DOMAIN b[i] : b[i][x] = q[i][x]
       /\ PrefixFits(q, Len(b), pin.batchSize)
       /\ \A k \in (Len(b) + 1)..Len(q) : ~PrefixFits(q, k, pin.batchSize)
       /\ (q # <<>> /\ q[1].charsCount > EMBED_TOTAL_CHARS) => b = <<>>

\* a queue of three whose first two containers cost exactly 5900: the batch
\* is cut by the sum, before the count
C16_Witness ==
  /\ pout # <<>>
  /\ Len(pin.source) = 3
  /\ pin.batchSize = MAX_EMBEDS_PER_PAYLOAD
  /\ Len(pout[1]) = 2
  /\ PrefixCost(pin.source, 2) = EMBED_TOTAL_CHARS
  /\ pin.source[3].charsCount = 100

\* the most characters the transport of the test accepts in a request body
BODY_MAX_CHARS == 6000

\* C17: every request body handed to the transport has at most 6000
\* characters in its serialized JSON form and holds at most 10 embeds.
C17_BodyWithinLimits ==
  \A i \in 1..Len(calls) :
     /\ BodyLength(calls[i].batch) <= BODY_MAX_CHARS
     /\ Len(calls[i].batch) <= MAX_EMBEDS_PER_PAYLOAD

\* the embed count by itself is kept
PayloadEmbedCount ==
  \A i \in 1..Len(calls) : Len(calls[i].batch) <= MAX_EMBEDS_PER_PAYLOAD

\* C18: the first init() passes each buffered alert to the client's
\* addAlert exactly once and in the order of the calls, and executes a flush
\* requested before init on the client, after all buffered alerts; a second
\* init() replays nothing and leaves the client as it is.
C18_LazyReplay ==
  [][/\ (ev'.op = "init" /\ ~lazy.client)
          => /\ lazy'.client
             /\ lazy'.passed = lazy.queuedAlerts
             /\ lazy.flushRequested
                  => lazy'.flushAfter = <<Len(lazy.queuedAlerts)>>
     /\ (ev'.op = "init" /\ lazy.client)
          => /\ lazy' = lazy
             /\ UNCHANGED <<embeds, timeoutId, isSending, isFlushing, timers,
                            calls, flushers>>]_vars

\* the replay of the buffered alerts when none of them makes addAlert throw,
\* the flush after them when there is at least one, and the second init()
LazyReplayWithoutThrow ==
  [][/\ (/\ ev'.op = "init"
         /\ ~lazy.client
         /\ \A k \in 1..Len(lazy.queuedAlerts) :
               ~truncateThrows(lazy.queuedAlerts[k]))
          => /\ lazy'.passed = lazy.queuedAlerts
             /\ (lazy.flushRequested /\ lazy.queuedAlerts # <<>>)
                  => lazy'.flushAfter = <<Len(lazy.queuedAlerts)>>
     /\ (ev'.op = "init" /\ lazy.client)
          => /\ lazy' = lazy
             /\ UNCHANGED <<embeds, timeoutId, isSending, isFlushing, timers,
                            calls, flushers>>]_vars

\* the flush() calls whose drain loop is running: suspended in the transport
\* call of a send step or in the delay after one
Draining == {p \in Flushers : flushers[p] \in {"send", "wait"}}

\* C19: at most one flush drain loop is active at any time, also with three
\* overlapping flush() calls; while one is active isFlushing is set, and a
\* transport call issued by a flush() belongs to the one active loop (a
\* waiting flush() has issued none).
C19_OneDrainLoop ==
  /\ Cardinality(Draining) <= 1
  /\ Draining # {} => isFlushing
  /\ \A i \in 1..Len(calls) :
        calls[i].caller # 0 => flushers[calls[i].caller] = "send"
  /\ \A p \in Flushers :
        flushers[p] = "poll"
          => \A i \in 1..Len(calls) : calls[i].caller # p

\* three flush() calls overlap: the first is in a send step, the other two
\* wait and have sent nothing
C19_Witness ==
  /\ flushers[1] = "send"
  /\ flushers[2] = "poll"
  /\ flushers[3] = "poll"
  /\ Len(calls) = 1
  /\ calls[1].caller = 1
  /\ embeds # <<>>

\* container x was enqueued before container y: by an earlier addAlert call,
\* or earlier in the result of the same call
EnqueuedBefore(x, y) == x[1] < y[1] \/ (x[1] = y[1] /\ x[2] < y[2])

\* a payload built in this step holds the first containers of the queue, in
\* queue order
PayloadsArePrefixes ==
  Len(calls') > Len(calls)
    => \A i \in (Len(calls) + 1)..Len(calls') :
          /\ Len(calls'[i].batch) <= Len(embeds')
          /\ CidSeq(calls'[i].batch)
               = SubSeq(CidSeq(embeds'), 1, Len(calls'[i].batch))

\* addAlert leaves the queue it found as the front of the new queue
AddAlertAppends ==
  ev'.op = "addAlert"
    => /\ Len(embeds') >= Len(embeds)
       /\ SubSeq(embeds', 1, Len(embeds)) = embeds

\* no container has been in a payload while one enqueued before it has not
FirstTransmissionsInOrder ==
  ~disabled =>
    \A y \in handed :
       \A x \in (Cids(embeds) \cup lost) \ handed : ~EnqueuedBefore(x, y)

\* C20: every payload handed to the transport is the first k containers of
\* the queue as it stands when the payload is built, in queue order; addAlert
\* only appends at the tail; and no container is transmitted for the first
\* time before a container that was enqueued earlier than it.
C20_FifoFirstTransmission ==
  [][/\ PayloadsArePrefixes
     /\ AddAlertAppends
     /\ FirstTransmissionsInOrder']_vars

\* the two premises by themselves
PrefixAndAppend == [][PayloadsArePrefixes /\ AddAlertAppends]_vars

\* the transport calls that await their response
InFlight == {i \in 1..Len(calls) : calls[i].phase = "fetch"}

\* C21: at most one transport call of the client is in flight at any time:
\* no flush loop and no timer enters sendAlertsBatch while another
\* sendAlertsBatch awaits its transport response.
C21_OneCallInFlight == Cardinality(InFlight) <= 1

\* C22: isSending is true only while a transport call is in flight or a send
\* timer is pending; no sequence of operations leaves it true with nothing
\* in flight and nothing scheduled.
C22_SendingOnlyWhileBusy ==
  isSending => (calls # <<>> \/ PendingSendTimers(timers) # {})

\* isSending is never true with no call in flight and no timer of any kind
\* armed (not even the delay of a flush loop)
NeverSendingWithNothingArmed ==
  isSending => (calls # <<>> \/ timers # <<>>)

\* the statement of C22 on an enabled client while stop() was never called
SendingOnlyWhileBusyWithoutStop ==
  (~disabled /\ nStop = 0) => C22_SendingOnlyWhileBusy

\* the containers the addAlert calls can enqueue
AllCids ==
  UNION {{<<n, i>> : i \in 1..Len(Packed[a, n])} :
           a \in ClientAlerts \ {CircularAlert}, n \in 1..MaxAlerts}

\* C23: on an enabled client whose transport always answers ok, with fair
\* timers and no flush() or stop(), every container an accepted addAlert
\* enqueued is eventually included in a payload handed to the transport.
C23_EveryContainerSent ==
  \A c \in AllCids : (c \in Cids(embeds)) ~> (c \in handed)

\* the same for the behaviours in which no container is ever removed by a
\* send it was not part of (the fault of C1 does not occur)
EveryContainerSentUnlessLost ==
  [](lost = {}) => C23_EveryContainerSent
====
